---- MODULE Spec2Model ----
(***************************************************************************)
(* Model of main-ktallam.ipynb: the fixed-step integrators                 *)
(* (euler_step_func, rk4_step_func, ShallowODE.forward), the training loop *)
(* (train), the step-size evaluation sweep of __main__, and the frozen     *)
(* subset / Hessian-vector product of get_hessian_eigenvectors.            *)
(*                                                                         *)
(* Real numbers are exact rationals <<n, d>> with d > 0, in lowest terms.  *)
(* Python's None is NoneVal (the empty tuple) for scalars and None (a      *)
(* record) for objects.                                                    *)
(***************************************************************************)
EXTENDS Integers, Sequences, FiniteSets

\* ------------------------------------------------------------------ bounds
\* NUMBER_EPOCHS is 1000 at line 19 of the source; the model runs fewer.
NUMBER_EPOCHS == 3
\* largest len(train_loader) / len(test_loader) passed to train
MaxTrainBatches == 2
MaxTestBatches == 2
\* loss values are drawn from 0..MaxLoss, one level per epoch
MaxLoss == 1
\* largest number of batches of one eval_loader of the sweep
MaxEvalBatches == 2
\* integrator inputs: x ranges over n/d, n in -MaxX..MaxX, d in {1, 2}
MaxX == 2
\* Hessian: batches the source yields, num_batches asked, parameters,
\* length of the vector handed to the operator, matvec calls of one eigsh run
MaxSrcBatches == 3
MaxNumBatches == 3
MaxParams == 3
MaxVecLen == 4
MaxHvpCalls == 2

\* ------------------------------------------------------- exact arithmetic
Abs(n) == IF n < 0 THEN -n ELSE n

RECURSIVE GCD(_, _)
GCD(a, b) == IF b = 0 THEN a ELSE GCD(b, a % b)

Norm(n, d) ==
    LET g == GCD(Abs(n), Abs(d))
        s == IF d < 0 THEN -1 ELSE 1
    IN  <<(s * n) \div g, (s * d) \div g>>

R(n, d) == Norm(n, d)
RAdd(a, b) ==
    LET g == GCD(a[2], b[2])
    IN  Norm(a[1] * (b[2] \div g) + b[1] * (a[2] \div g), a[2] * (b[2] \div g))
RMul(a, b) ==
    LET p == Norm(a[1], b[2])
        q == Norm(b[1], a[2])
    IN  Norm(p[1] * q[1], p[2] * q[2])
\* a / n for an integer n # 0
RDiv(a, n) == Norm(a[1], a[2] * n)
RNeg(a) == <<-a[1], a[2]>>
RSub(a, b) == RAdd(a, RNeg(b))
RLess(a, b) == a[1] * b[2] < b[1] * a[2]
RAbs(a) == <<Abs(a[1]), a[2]>>

NoneVal == <<>>
None == [kind |-> "None"]

VARIABLES
    \* ---- train / evaluation sweep
    pc,                      \* position in train or in the sweep
    err,                     \* the exception that ended the operation, or "none"
    ODEnet,                  \* the live model object
    ODEnet_best,             \* train's best checkpoint, or None
    args,                    \* train's arguments
    epoch, batch_idx,
    level,                   \* loss level of the epoch in progress: the loss
                             \* every batch of the epoch reports
    loss_ave, test_loss_ave,
    ode_loss_hist, ode_loss_ave_hist, ode_test_loss_ave_hist,
    calls,                   \* optimizer / autograd / scheduler calls, in order
    fwd_cfg,                 \* <<phase, method, dt, h>> of every forward call
                             \* (h: the sweep's step size, NoneVal in train)
    grad_enabled,
    integrator, h_idx, n_eval, output_list, error,
    \* ---- one-step integrators and ShallowODE.forward
    s_pc, s_f, s_x, s_dt, s_model, s_op, s_res,
    \* ---- get_hessian_eigenvectors
    g_pc, g_err, g_src, g_args, g_iters, g_fetched, subset_images,
    g_hvp_calls, g_hvp_used, g_v, g_res

trainVars == <<pc, err, ODEnet, ODEnet_best, args, epoch, batch_idx, level,
               loss_ave, test_loss_ave, ode_loss_hist, ode_loss_ave_hist,
               ode_test_loss_ave_hist, calls, fwd_cfg, grad_enabled>>
sweepVars == <<integrator, h_idx, n_eval, output_list, error>>
stepVars == <<s_pc, s_f, s_x, s_dt, s_model, s_op, s_res>>
hessVars == <<g_pc, g_err, g_src, g_args, g_iters, g_fetched, subset_images,
              g_hvp_calls, g_hvp_used, g_v, g_res>>
vars == <<trainVars, sweepVars, stepVars, hessVars>>

\* ------------------------------------------------------------ ShallowODE
Methods == {"euler", "rk4", "midpoint"}   \* "midpoint": a name forward does not know

\* ShallowODE.__init__: dt and method are stored as given. net is the vector
\* field of the model; params counts the updates its weights have received.
ShallowODE(net, dt, method) ==
    [kind |-> "ShallowODE", net |-> net, params |-> 0, dt |-> dt,
     method |-> method, training |-> TRUE]

\* the branch ShallowODE.forward takes for a method name
Dispatch(method) ==
    IF method = "euler" THEN "euler_step_func"
    ELSE IF method = "rk4" THEN "rk4_step_func"
    ELSE "None"

\* ------------------------------------------------------ step functions
\* vector fields f the step functions are applied to
Fields == {"neg", "dbl", "one", "relu"}
Apply(f, x) ==
    IF f = "neg" THEN RNeg(x)
    ELSE IF f = "dbl" THEN RMul(R(2, 1), x)
    ELSE IF f = "one" THEN R(1, 1)
    ELSE IF RLess(x, R(0, 1)) THEN R(0, 1) ELSE x

\* A call returns [out, evals]: the value returned and the points at which f
\* was evaluated, in the order of the calls.
euler_step_func(f, x, dt) ==
    LET k1 == Apply(f, x)
        x_out == RAdd(x, RMul(dt, k1))
    IN  [out |-> x_out, evals |-> <<x>>]

rk4_step_func_x2(f, x, dt) ==
    LET half == R(1, 2)
        k1 == Apply(f, x)
        x1 == RAdd(x, RMul(RMul(half, dt), k1))
        k2 == Apply(f, x1)
        x2 == RAdd(x1, RMul(RMul(half, dt), k2))
        k3 == Apply(f, x2)
        x3 == RAdd(x, RMul(dt, k3))
        k4 == Apply(f, x3)
        x_out == RAdd(x, RMul(dt,
                    RAdd(RAdd(RAdd(RMul(R(1, 6), k1), RMul(R(1, 3), k2)),
                              RMul(R(1, 3), k3)), RMul(R(1, 6), k4))))
    IN  [out |-> x_out, evals |-> <<x, x1, x2, x3>>]

rk4_step_func(f, x, dt) ==
    LET half == R(1, 2)
        k1 == Apply(f, x)
        x1 == RAdd(x, RMul(RMul(half, dt), k1))
        k2 == Apply(f, x1)
        x2 == RAdd(x, RMul(RMul(half, dt), k2))
        k3 == Apply(f, x2)
        x3 == RAdd(x, RMul(dt, k3))
        k4 == Apply(f, x3)
        x_out == RAdd(x, RMul(dt,
                    RAdd(RAdd(RAdd(RMul(R(1, 6), k1), RMul(R(1, 3), k2)),
                              RMul(R(1, 3), k3)), RMul(R(1, 6), k4))))
    IN  [out |-> x_out, evals |-> <<x, x1, x2, x3>>]

forward_fallback(self, x) ==
    IF self.method = "rk4" THEN rk4_step_func(self.net, x, self.dt)
    ELSE euler_step_func(self.net, x, self.dt)

\* ShallowODE.forward: no branch is taken for any other method, and the
\* function falls off its end
forward(self, x) ==
    IF self.method = "euler" THEN euler_step_func(self.net, x, self.dt)
    ELSE IF self.method = "rk4" THEN rk4_step_func(self.net, x, self.dt)
    ELSE [out |-> NoneVal, evals |-> <<>>]

\* copy.deepcopy: an independent value equal to the model at the time of the copy
deepcopy(model) == model

\* ------------------------------------------------------------------ train
Inf == <<1, 0>>     \* float('inf'): RLess(a, Inf) for every rational a

RECURSIVE PyMin(_, _)
\* min(seq, default=d)
PyMin(seq, d) ==
    IF seq = <<>> THEN d
    ELSE LET rest == PyMin(Tail(seq), Head(seq))
         IN  IF RLess(rest, Head(seq)) THEN rest ELSE Head(seq)

SetIntegrator_methodOnly(model, method, dt) ==
    [model EXCEPT !.method = method]

\* lines 104-105: the integrator configuration put on the model
SetIntegrator(model, method, dt) ==
    [model EXCEPT !.dt = dt, !.method = method]

InEpochRange_short(e) == e < NUMBER_EPOCHS

\* range(1, NUMBER_EPOCHS + 1)
InEpochRange(e) == e <= NUMBER_EPOCHS

TrainBatchCalls_sched ==
    <<"zero_grad", "backward", "optimizer.step", "scheduler.step">>

\* the optimizer / autograd calls of one training batch, in order (lines 112-116)
TrainBatchCalls == <<"zero_grad", "backward", "optimizer.step">>

\* optimizer_ODEnet.step(): the parameters move
OptimizerStep(model) == [model EXCEPT !.params = @ + 1]

NoGradBatch_step(model) == OptimizerStep(model)

\* one held-out batch under torch.no_grad(): forward and loss only
NoGradBatch(model) == model

TrainArgs ==
    [method : Methods, dt : {R(1, 10), R(1, 5)},
     n_train : 0..MaxTrainBatches, n_test : 0..MaxTestBatches]

\* lines 94-107
TrainStart ==
    /\ pc = "idle"
    /\ \E a \in TrainArgs :
        /\ args' = a
        /\ ODEnet' = SetIntegrator(ODEnet, a.method, a.dt)
    /\ calls' = <<"Adam", "LinearLR">>
    /\ ode_loss_hist' = <<>>
    /\ ode_loss_ave_hist' = <<>>
    /\ ode_test_loss_ave_hist' = <<>>
    /\ ODEnet_best' = None
    /\ epoch' = 1
    /\ pc' = "epoch"
    /\ UNCHANGED <<err, batch_idx, level, loss_ave, test_loss_ave, fwd_cfg,
                   grad_enabled, sweepVars, stepVars, hessVars>>

\* lines 108-110: the next epoch begins
EpochBegin ==
    /\ pc = "epoch"
    /\ InEpochRange(epoch)
    /\ loss_ave' = R(0, 1)
    /\ ODEnet' = [ODEnet EXCEPT !.training = TRUE]
    /\ batch_idx' = 0
    /\ level' \in 0..MaxLoss
    /\ pc' = "train_batch"
    /\ UNCHANGED <<err, ODEnet_best, args, epoch, test_loss_ave, ode_loss_hist,
                   ode_loss_ave_hist, ode_test_loss_ave_hist, calls, fwd_cfg,
                   grad_enabled, sweepVars, stepVars, hessVars>>

\* lines 111-118: one training batch
TrainBatch ==
    /\ pc = "train_batch"
    /\ batch_idx < args.n_train
    /\ fwd_cfg' = fwd_cfg \cup {<<"train", ODEnet.method, ODEnet.dt, NoneVal>>}
    /\ IF Dispatch(ODEnet.method) = "None"
       THEN \* outputs is None: criterion(outputs, targets) raises
            /\ calls' = Append(calls, TrainBatchCalls[1])
            /\ pc' = "raised"
            /\ err' = "AttributeError"
            /\ UNCHANGED <<ODEnet, loss_ave, ode_loss_hist, batch_idx>>
       ELSE /\ calls' = calls \o TrainBatchCalls
            /\ ODEnet' = OptimizerStep(ODEnet)
            /\ loss_ave' = RAdd(loss_ave, R(level, 1))
            /\ ode_loss_hist' = Append(ode_loss_hist, R(level, 1))
            /\ batch_idx' = batch_idx + 1
            /\ UNCHANGED <<pc, err>>
    /\ UNCHANGED <<ODEnet_best, args, epoch, level, test_loss_ave,
                   ode_loss_ave_hist, ode_test_loss_ave_hist, grad_enabled,
                   sweepVars, stepVars, hessVars>>

\* lines 119-124: average the training loss, switch to evaluation
TrainLoopEnd ==
    /\ pc = "train_batch"
    /\ batch_idx = args.n_train
    /\ IF args.n_train = 0
       THEN \* loss_ave /= len(train_loader) with an empty loader
            /\ pc' = "raised"
            /\ err' = "ZeroDivisionError"
            /\ UNCHANGED <<ODEnet, loss_ave, ode_loss_ave_hist, test_loss_ave,
                           grad_enabled, batch_idx, level>>
       ELSE /\ loss_ave' = RDiv(loss_ave, args.n_train)
            /\ ode_loss_ave_hist' = Append(ode_loss_ave_hist, RDiv(loss_ave, args.n_train))
            /\ ODEnet' = [ODEnet EXCEPT !.training = FALSE]
            /\ test_loss_ave' = R(0, 1)
            /\ grad_enabled' = FALSE
            /\ batch_idx' = 0
            /\ pc' = "eval_batch"
            /\ UNCHANGED <<err, level>>
    /\ UNCHANGED <<ODEnet_best, args, epoch, ode_loss_hist,
                   ode_test_loss_ave_hist, calls, fwd_cfg, sweepVars, stepVars,
                   hessVars>>

\* lines 125-128: one held-out batch
EvalBatch ==
    /\ pc = "eval_batch"
    /\ batch_idx < args.n_test
    /\ fwd_cfg' = fwd_cfg \cup {<<"eval", ODEnet.method, ODEnet.dt, NoneVal>>}
    /\ IF Dispatch(ODEnet.method) = "None"
       THEN /\ pc' = "raised"
            /\ err' = "AttributeError"
            /\ UNCHANGED <<ODEnet, test_loss_ave, batch_idx>>
       ELSE /\ ODEnet' = NoGradBatch(ODEnet)
            /\ test_loss_ave' = RAdd(test_loss_ave, R(level, 1))
            /\ batch_idx' = batch_idx + 1
            /\ UNCHANGED <<pc, err>>
    /\ UNCHANGED <<ODEnet_best, args, epoch, level, loss_ave, ode_loss_hist,
                   ode_loss_ave_hist, ode_test_loss_ave_hist, calls,
                   grad_enabled, sweepVars, stepVars, hessVars>>

\* lines 129-137: average the test loss, record it, keep the best model
EpochEnd ==
    /\ pc = "eval_batch"
    /\ batch_idx = args.n_test
    /\ grad_enabled' = TRUE
    /\ IF args.n_test = 0
       THEN /\ pc' = "raised"
            /\ err' = "ZeroDivisionError"
            /\ UNCHANGED <<test_loss_ave, ode_test_loss_ave_hist, ODEnet_best, epoch>>
       ELSE LET ave == RDiv(test_loss_ave, args.n_test)
                hist == Append(ode_test_loss_ave_hist, ave)
            IN  /\ test_loss_ave' = ave
                /\ ode_test_loss_ave_hist' = hist
                /\ ODEnet_best' = IF RLess(ave, PyMin(hist, Inf))
                                  THEN deepcopy(ODEnet)
                                  ELSE ODEnet_best
                /\ epoch' = epoch + 1
                /\ pc' = "epoch"
                /\ UNCHANGED err
    /\ UNCHANGED <<ODEnet, args, batch_idx, level, loss_ave, ode_loss_hist,
                   ode_loss_ave_hist, calls, fwd_cfg, sweepVars, stepVars,
                   hessVars>>

\* line 139
TrainReturn ==
    /\ pc = "epoch"
    /\ ~InEpochRange(epoch)
    /\ pc' = "returned"
    /\ UNCHANGED <<err, ODEnet, ODEnet_best, args, epoch, batch_idx, level,
                   loss_ave, test_loss_ave, ode_loss_hist, ode_loss_ave_hist,
                   ode_test_loss_ave_hist, calls, fwd_cfg, grad_enabled,
                   sweepVars, stepVars, hessVars>>

\* ------------------------------------------------- evaluation sweep (main)
\* line 201, as exact rationals
hs == <<R(1, 2000), R(1, 1000), R(1, 200), R(1, 100), R(1, 20), R(1, 10),
        R(1, 5), R(1, 2), R(1, 1), R(2, 1), R(3, 1), R(4, 1), R(5, 1), R(10, 1)>>

\* lines 211-212: the configuration put on the model before each forward call
SweepConfig(model, h, method) == [model EXCEPT !.dt = h, !.method = method]

\* lines 200-202. The block is entered with a model object and the loop
\* variable integrator of line 164 (one of the names of line 163).
SweepStart ==
    /\ pc = "idle"
    /\ integrator' \in {"rk4", "euler"}
    /\ error' = <<>>
    /\ h_idx' = 1
    /\ pc' = "sweep_h"
    /\ UNCHANGED <<err, ODEnet, ODEnet_best, args, epoch, batch_idx, level,
                   loss_ave, test_loss_ave, ode_loss_hist, ode_loss_ave_hist,
                   ode_test_loss_ave_hist, calls, fwd_cfg, grad_enabled,
                   n_eval, output_list, stepVars, hessVars>>

\* lines 203-209: the next step size, its data and its loader
SweepH ==
    /\ pc = "sweep_h"
    /\ h_idx <= Len(hs)
    /\ n_eval' \in 1..MaxEvalBatches
    /\ output_list' = <<>>
    /\ batch_idx' = 0
    /\ pc' = "sweep_batch"
    /\ UNCHANGED <<err, ODEnet, ODEnet_best, args, epoch, level, loss_ave,
                   test_loss_ave, ode_loss_hist, ode_loss_ave_hist,
                   ode_test_loss_ave_hist, calls, fwd_cfg, grad_enabled,
                   integrator, h_idx, error, stepVars, hessVars>>

\* lines 210-215: one batch of the loader
SweepBatch ==
    /\ pc = "sweep_batch"
    /\ batch_idx < n_eval
    /\ LET m == SweepConfig(ODEnet, hs[h_idx], integrator)
       IN  /\ ODEnet' = m
           /\ fwd_cfg' = fwd_cfg \cup {<<"sweep", m.method, m.dt, hs[h_idx]>>}
    /\ output_list' = Append(output_list, batch_idx)
    /\ batch_idx' = batch_idx + 1
    /\ UNCHANGED <<pc, err, ODEnet_best, args, epoch, level, loss_ave,
                   test_loss_ave, ode_loss_hist, ode_loss_ave_hist,
                   ode_test_loss_ave_hist, calls, grad_enabled, integrator,
                   h_idx, n_eval, error, stepVars, hessVars>>

\* line 217: the error of this step size
SweepHEnd ==
    /\ pc = "sweep_batch"
    /\ batch_idx = n_eval
    /\ error' = Append(error, hs[h_idx])
    /\ h_idx' = h_idx + 1
    /\ pc' = "sweep_h"
    /\ UNCHANGED <<err, ODEnet, ODEnet_best, args, epoch, batch_idx, level,
                   loss_ave, test_loss_ave, ode_loss_hist, ode_loss_ave_hist,
                   ode_test_loss_ave_hist, calls, fwd_cfg, grad_enabled,
                   integrator, n_eval, output_list, stepVars, hessVars>>

\* line 219
SweepDone ==
    /\ pc = "sweep_h"
    /\ h_idx > Len(hs)
    /\ pc' = "swept"
    /\ UNCHANGED <<err, ODEnet, ODEnet_best, args, epoch, batch_idx, level,
                   loss_ave, test_loss_ave, ode_loss_hist, ode_loss_ave_hist,
                   ode_test_loss_ave_hist, calls, fwd_cfg, grad_enabled,
                   sweepVars, stepVars, hessVars>>

\* ----------------------------------- step functions and forward, called
StepXs == {R(n, d) : n \in -MaxX..MaxX, d \in {1, 2}}
StepDts == {R(1, 10), R(1, 2), R(1, 1), R(2, 1)}

CallEuler ==
    /\ s_pc = "ready"
    /\ s_res' = euler_step_func(s_f, s_x, s_dt)
    /\ s_op' = "euler_step_func"
    /\ s_pc' = "done"
    /\ UNCHANGED <<trainVars, sweepVars, hessVars, s_f, s_x, s_dt, s_model>>

CallRK4 ==
    /\ s_pc = "ready"
    /\ s_res' = rk4_step_func(s_f, s_x, s_dt)
    /\ s_op' = "rk4_step_func"
    /\ s_pc' = "done"
    /\ UNCHANGED <<trainVars, sweepVars, hessVars, s_f, s_x, s_dt, s_model>>

\* ShallowODE(..., dt=s_dt, method=m) around the field s_f
Construct ==
    /\ s_pc = "ready"
    /\ \E m \in Methods : s_model' = ShallowODE(s_f, s_dt, m)
    /\ s_pc' = "built"
    /\ UNCHANGED <<trainVars, sweepVars, hessVars, s_f, s_x, s_dt, s_op, s_res>>

\* ODEnet(inputs)
CallForward ==
    /\ s_pc = "built"
    /\ s_res' = forward(s_model, s_x)
    /\ s_op' = "forward"
    /\ s_pc' = "done"
    /\ UNCHANGED <<trainVars, sweepVars, hessVars, s_f, s_x, s_dt, s_model>>

\* ------------------------------------------- get_hessian_eigenvectors
RECURSIVE cat(_)
\* torch.cat of a non-empty list of batches
cat(list) == IF list = <<>> THEN <<>> ELSE Head(list) \o cat(Tail(list))

LoopBreak_late(idx, num_batches) == idx > num_batches

\* the loop's break test, line 264
LoopBreak(idx, num_batches) == idx >= num_batches

\* the size of a * b for one-dimensional tensors of sizes a and b, -1 when
\* the sizes do not broadcast
MulSize(a, b) ==
    IF a = b THEN a ELSE IF a = 1 THEN b ELSE IF b = 1 THEN a ELSE -1

\* hessian_vector_product through matvec, for a vector of length v_len:
\* flat_grad * vector either fails on the sizes or the call returns one
\* entry per parameter
hessian_vector_product(v_len, num_params) ==
    IF MulSize(num_params, v_len) = -1
    THEN [err |-> "RuntimeError: size mismatch", len |-> -1]
    ELSE [err |-> "none", len |-> num_params]

\* a data source of nb batches of two samples, the last one short or not
Source(nb, short) ==
    [i \in 1..nb |-> IF i = nb /\ short THEN <<2 * i - 1>> ELSE <<2 * i - 1, 2 * i>>]

\* lines 257-263: the arguments, the empty lists, the one iteration started
HessianStart ==
    /\ g_pc = "idle"
    \* eigsh asks for k >= 1 eigenpairs of an operator of size > k
    /\ g_args' \in [num_batches : 0..MaxNumBatches, num_params : 2..MaxParams]
    /\ subset_images' = <<>>
    /\ g_iters' = g_iters + 1
    /\ g_pc' = "collect"
    /\ UNCHANGED <<trainVars, sweepVars, stepVars, g_err, g_src, g_fetched,
                   g_hvp_calls, g_hvp_used, g_v, g_res>>

\* lines 263-267: the source yields its next batch
HessianCollect ==
    /\ g_pc = "collect"
    /\ g_fetched < Len(g_src)
    /\ g_fetched' = g_fetched + 1
    /\ IF LoopBreak(g_fetched, g_args.num_batches)
       THEN g_pc' = "cat" /\ UNCHANGED subset_images
       ELSE /\ subset_images' = Append(subset_images, g_src[g_fetched + 1])
            /\ UNCHANGED g_pc
    /\ UNCHANGED <<trainVars, sweepVars, stepVars, g_err, g_src, g_args,
                   g_iters, g_hvp_calls, g_hvp_used, g_v, g_res>>

\* line 263: the source is exhausted
HessianExhausted ==
    /\ g_pc = "collect"
    /\ g_fetched = Len(g_src)
    /\ g_pc' = "cat"
    /\ UNCHANGED <<trainVars, sweepVars, stepVars, g_err, g_src, g_args,
                   g_iters, g_fetched, subset_images, g_hvp_calls, g_hvp_used,
                   g_v, g_res>>

\* lines 269-270 and 284: torch.cat raises on an empty list
HessianCat ==
    /\ g_pc = "cat"
    /\ IF subset_images = <<>>
       THEN g_pc' = "raised" /\ g_err' = "RuntimeError: cat" /\ UNCHANGED subset_images
       ELSE g_pc' = "eigsh" /\ subset_images' = cat(subset_images) /\ UNCHANGED g_err
    /\ UNCHANGED <<trainVars, sweepVars, stepVars, g_src, g_args, g_iters,
                   g_fetched, g_hvp_calls, g_hvp_used, g_v, g_res>>

\* lines 272-282: matvec(v) for a vector of some length
HvpCall ==
    /\ g_pc = "eigsh"
    /\ g_hvp_calls < MaxHvpCalls
    /\ \E n \in 0..MaxVecLen :
        /\ g_v' = n
        /\ g_res' = hessian_vector_product(n, g_args.num_params)
        /\ g_err' = hessian_vector_product(n, g_args.num_params).err
        /\ g_pc' = IF hessian_vector_product(n, g_args.num_params).err = "none"
                   THEN "eigsh" ELSE "raised"
    /\ g_hvp_calls' = g_hvp_calls + 1
    /\ g_hvp_used' = g_hvp_used \cup {subset_images}
    /\ UNCHANGED <<trainVars, sweepVars, stepVars, g_src, g_args, g_iters,
                   g_fetched, subset_images>>

\* lines 285-288
EigshReturn ==
    /\ g_pc = "eigsh"
    /\ g_pc' = "returned"
    /\ UNCHANGED <<trainVars, sweepVars, stepVars, g_err, g_src, g_args,
                   g_iters, g_fetched, subset_images, g_hvp_calls, g_hvp_used,
                   g_v, g_res>>

\* ------------------------------------------------------- specification
StepIdle ==
    /\ s_pc = "off" /\ s_f = "none" /\ s_x = NoneVal /\ s_dt = NoneVal
    /\ s_model = None /\ s_op = "none" /\ s_res = None
HessIdle ==
    /\ g_pc = "off" /\ g_err = "none" /\ g_src = <<>> /\ g_args = None
    /\ g_iters = 0 /\ g_fetched = 0 /\ subset_images = NoneVal
    /\ g_hvp_calls = 0 /\ g_hvp_used = {} /\ g_v = -1 /\ g_res = None
TrainIdle ==
    /\ err = "none" /\ ODEnet_best = None /\ args = None
    /\ epoch = 0 /\ batch_idx = 0 /\ level = 0
    /\ loss_ave = R(0, 1) /\ test_loss_ave = R(0, 1)
    /\ ode_loss_hist = <<>> /\ ode_loss_ave_hist = <<>>
    /\ ode_test_loss_ave_hist = <<>>
    /\ calls = <<>> /\ fwd_cfg = {} /\ grad_enabled = TRUE
    /\ integrator = "none" /\ h_idx = 0 /\ n_eval = 0
    /\ output_list = <<>> /\ error = <<>>

\* The model object as its constructor leaves it: the defaults of line 79,
\* or the arguments of line 181.
Init ==
    /\ pc = "idle"
    /\ ODEnet \in {ShallowODE("shallow", NoneVal, "euler"),
                   ShallowODE("shallow", R(1, 5), "euler"),
                   ShallowODE("shallow", R(1, 5), "rk4")}
    /\ TrainIdle
    /\ StepIdle
    /\ HessIdle

Next ==
    \/ TrainStart
    \/ EpochBegin
    \/ TrainBatch
    \/ TrainLoopEnd
    \/ EvalBatch
    \/ EpochEnd
    \/ TrainReturn
    \/ SweepStart
    \/ SweepH
    \/ SweepBatch
    \/ SweepHEnd
    \/ SweepDone

Spec == Init /\ [][Next]_vars

\* the step functions and forward on drawn inputs
InitStep ==
    /\ pc = "off"
    /\ ODEnet = None
    /\ TrainIdle
    /\ HessIdle
    /\ s_pc = "ready"
    /\ s_f \in Fields /\ s_x \in StepXs /\ s_dt \in StepDts
    /\ s_model = None /\ s_op = "none" /\ s_res = None
NextStep ==
    \/ CallEuler
    \/ CallRK4
    \/ Construct
    \/ CallForward
SpecStep == InitStep /\ [][NextStep]_vars

\* get_hessian_eigenvectors on a drawn data source
InitHessian ==
    /\ pc = "off"
    /\ ODEnet = None
    /\ TrainIdle
    /\ StepIdle
    /\ g_pc = "idle" /\ g_err = "none" /\ g_args = None
    /\ g_src \in {Source(nb, short) : nb \in 0..MaxSrcBatches, short \in BOOLEAN}
    /\ g_iters = 0 /\ g_fetched = 0 /\ subset_images = NoneVal
    /\ g_hvp_calls = 0 /\ g_hvp_used = {} /\ g_v = -1 /\ g_res = None
NextHessian ==
    \/ HessianStart
    \/ HessianCollect
    \/ HessianExhausted
    \/ HessianCat
    \/ HvpCall
    \/ EigshReturn
SpecHessian == InitHessian /\ [][NextHessian]_vars

\* train keeps running: the script is sequential and nothing suspends it
FairSpec == Spec /\ WF_vars(Next)

\* ------------------------------------------------------ claims on train
Last(seq) == seq[Len(seq)]
Range(seq) == {seq[i] : i \in 1..Len(seq)}
Count(seq, x) == Cardinality({i \in 1..Len(seq) : seq[i] = x})
\* the minimum of the averaged test losses, +infinity for none
MinOf(hist) ==
    IF hist = <<>> THEN Inf
    ELSE CHOOSE m \in Range(hist) : \A y \in Range(hist) : ~RLess(y, m)
\* the earliest epoch whose averaged test loss is the minimum
EarliestMin(hist) ==
    CHOOSE i \in 1..Len(hist) :
        /\ hist[i] = MinOf(hist)
        /\ \A j \in 1..(i - 1) : hist[j] # MinOf(hist)
InTrain == args # None
KnownScheme == InTrain /\ args.method \in {"euler", "rk4"}
EpochsDone == Len(ode_test_loss_ave_hist)

\* C1: at the end of every epoch the live model is deep-copied as the new best
\* checkpoint if and only if the epoch's averaged test loss is strictly less
\* than the minimum over all PRIOR epochs (+infinity before the first); a tie
\* keeps the existing best.
C1_BestCheckpointRule ==
    [][ Len(ode_test_loss_ave_hist') = Len(ode_test_loss_ave_hist) + 1
        => ( (ODEnet_best' = ODEnet)
             <=> RLess(Last(ode_test_loss_ave_hist'), MinOf(ode_test_loss_ave_hist)) )
      ]_vars

\* C2: after any completed epoch a best checkpoint exists, it is the snapshot
\* taken at the earliest epoch whose averaged test loss is the minimum so far,
\* and so its test loss is <= every epoch's test loss so far.
C2_BestCheckpointInvariant ==
    (InTrain /\ EpochsDone >= 1) =>
        /\ ODEnet_best # None
        /\ ODEnet_best.params = EarliestMin(ode_test_loss_ave_hist) * args.n_train
        /\ \A i \in 1..EpochsDone :
              ~RLess(ode_test_loss_ave_hist[i],
                     ode_test_loss_ave_hist[EarliestMin(ode_test_loss_ave_hist)])

\* C3 as stated: for finite batch sources train always ends by returning
\* after exactly NUMBER_EPOCHS epochs (stated here for the two schemes
\* forward knows).
C3_AlwaysRunsAllEpochs ==
    (KnownScheme /\ pc \in {"returned", "raised"}) =>
        /\ pc = "returned"
        /\ EpochsDone = NUMBER_EPOCHS
        /\ Len(ode_loss_hist) = NUMBER_EPOCHS * args.n_train

NonEmptySources == InTrain /\ args.n_train >= 1 /\ args.n_test >= 1
C3_Counts ==
    (KnownScheme /\ NonEmptySources) =>
        /\ pc # "raised"
        /\ EpochsDone <= NUMBER_EPOCHS
        /\ (pc = "returned") =>
              /\ EpochsDone = NUMBER_EPOCHS
              /\ Len(ode_loss_ave_hist) = NUMBER_EPOCHS
              /\ Len(ode_loss_hist) = NUMBER_EPOCHS * args.n_train
\* the histories only grow, at the end, by the entry just produced
C3_AppendOnly ==
    /\ \/ ode_loss_hist' = ode_loss_hist
       \/ /\ pc = "train_batch"
          /\ ode_loss_hist' = Append(ode_loss_hist, R(level, 1))
    /\ \/ ode_test_loss_ave_hist' = ode_test_loss_ave_hist
       \/ /\ pc = "eval_batch"
          /\ Len(ode_test_loss_ave_hist') = epoch
          /\ SubSeq(ode_test_loss_ave_hist', 1, epoch - 1) = ode_test_loss_ave_hist
\* C3 (amended): with a scheme forward knows and both sources yielding at
\* least one batch, train never raises and always returns, after exactly
\* NUMBER_EPOCHS epochs whatever the losses; at return ode_loss_hist holds
\* NUMBER_EPOCHS * len(train_loader) entries and ode_test_loss_ave_hist one
\* entry per epoch, both appended in processing order.
C3_NoEarlyStopping ==
    /\ [](C3_Counts)
    /\ [][InTrain => C3_AppendOnly]_vars
    /\ []((KnownScheme /\ NonEmptySources) => <>(pc = "returned"))
C3_Witness ==
    /\ pc = "returned" /\ args.n_train = 2 /\ args.n_test = 2
    /\ Len(ode_loss_hist) = 2 * NUMBER_EPOCHS
    /\ ode_test_loss_ave_hist[1] = R(0, 1)
    /\ Last(ode_test_loss_ave_hist) = R(MaxLoss, 1)

\* C4 as stated: the optimizer is stepped once per training batch and the
\* scheduler is advanced once per run.
C4_SchedulerOncePerRun ==
    (pc = "returned") =>
        /\ Count(calls, "optimizer.step") = Len(ode_loss_hist)
        /\ Count(calls, "scheduler.step") = 1

\* C4 (amended): every training batch zeroes the gradients, runs one backward
\* pass and steps the optimizer once, in that order; the scheduler is
\* constructed once, before the first epoch, and train never advances it:
\* not per batch, not per epoch, not per run.
C4_UpdateCadence ==
    InTrain =>
        LET body == SubSeq(calls, 3, Len(calls))
            k == Len(ode_loss_hist)
        IN  /\ SubSeq(calls, 1, 2) = <<"Adam", "LinearLR">>
            /\ Count(calls, "LinearLR") = 1
            /\ Count(calls, "scheduler.step") = 0
            /\ Count(calls, "optimizer.step") = k
            /\ ODEnet.params = k
            /\ \A i \in 1..k :
                  /\ body[3 * i - 2] = "zero_grad"
                  /\ body[3 * i - 1] = "backward"
                  /\ body[3 * i] = "optimizer.step"
            /\ Len(body) = IF pc = "raised" /\ err = "AttributeError"
                           THEN 3 * k + 1 ELSE 3 * k
C4_Witness ==
    /\ pc = "returned" /\ args.n_train = 2
    /\ Count(calls, "optimizer.step") = 2 * NUMBER_EPOCHS

\* C5: the parameters change only by the optimizer step of a training batch;
\* in every epoch all training batches come before any held-out batch; the
\* held-out pass (evaluation mode, gradients disabled) and the best-checkpoint
\* comparison leave the parameters of the live model unchanged.
C5_ParamsOnlyByOptimizer ==
    InTrain =>
        /\ ODEnet.params = Len(ode_loss_hist)
        /\ ODEnet.params = Count(calls, "optimizer.step")
        /\ (pc = "train_batch") =>
              /\ ODEnet.params = (epoch - 1) * args.n_train + batch_idx
              /\ ODEnet.training /\ grad_enabled
        /\ (pc = "eval_batch") =>
              /\ ODEnet.params = epoch * args.n_train
              /\ ~ODEnet.training /\ ~grad_enabled
        /\ (pc \in {"epoch", "returned"}) =>
              ODEnet.params = (epoch - 1) * args.n_train
C5_Witness ==
    /\ pc = "epoch" /\ epoch = 3 /\ args.n_train = 2 /\ args.n_test = 2
    /\ ODEnet.params = 4

\* C6: train puts (method, dt) on the model once, before the first epoch, and
\* no later step of the run changes it, so every forward call of the run uses
\* the same scheme and step size; in the sweep every batch evaluated for a
\* step size h is evaluated with dt = h.
C6_IntegratorConfigFixed ==
    /\ InTrain =>
          /\ ODEnet.dt = args.dt /\ ODEnet.method = args.method
          /\ \A c \in fwd_cfg :
                c[1] \in {"train", "eval"} /\ c[2] = args.method /\ c[3] = args.dt
    /\ \A c \in fwd_cfg :
          c[1] = "sweep" => (c[3] = c[4] /\ c[2] = integrator)
    /\ (pc = "sweep_batch" /\ batch_idx > 0) =>
          (ODEnet.dt = hs[h_idx] /\ <<"sweep", integrator, hs[h_idx], hs[h_idx]>> \in fwd_cfg)
C6_Witness ==
    /\ pc = "returned" /\ args.dt = R(1, 10) /\ args.method = "rk4"
    /\ fwd_cfg = {<<"train", "rk4", R(1, 10), NoneVal>>, <<"eval", "rk4", R(1, 10), NoneVal>>}

\* ------------------------------------------- claims on the integrators
\* the schemes as the specification writes them
EulerFormula(f, x, dt) == RAdd(x, RMul(dt, Apply(f, x)))
RK4Points(f, x, dt) ==
    LET k1 == Apply(f, x)
        p2 == RAdd(x, RMul(RDiv(dt, 2), k1))
        k2 == Apply(f, p2)
        p3 == RAdd(x, RMul(RDiv(dt, 2), k2))
        k3 == Apply(f, p3)
        p4 == RAdd(x, RMul(dt, k3))
    IN  <<x, p2, p3, p4>>
RK4Formula(f, x, dt) ==
    LET p == RK4Points(f, x, dt)
        k1 == Apply(f, p[1])
        k2 == Apply(f, p[2])
        k3 == Apply(f, p[3])
        k4 == Apply(f, p[4])
    IN  RAdd(x, RMul(dt, RAdd(RAdd(RDiv(k1, 6), RDiv(k2, 3)),
                              RAdd(RDiv(k3, 3), RDiv(k4, 6)))))
UsesEuler ==
    \/ s_op = "euler_step_func"
    \/ s_op = "forward" /\ s_model.method = "euler"
UsesRK4 ==
    \/ s_op = "rk4_step_func"
    \/ s_op = "forward" /\ s_model.method = "rk4"
Scenario == s_f = "neg" /\ s_dt = R(1, 10) /\ s_x = R(1, 1)

\* C7: euler_step_func evaluates f once and returns x + dt*f(x); rk4_step_func
\* evaluates f four times, at x, x + dt/2*k1, x + dt/2*k2, x + dt*k3, and
\* returns x + dt*(k1/6 + k2/3 + k3/3 + k4/6); for f(x) = -x, dt = 0.1, x = 1
\* Euler gives 0.9 and RK4 gives 0.9048375, within 5 decimal places of
\* 0.904837; forward returns the result of the step function its method names.
C7_StepFunctions ==
    (s_pc = "done") =>
        /\ UsesEuler =>
              /\ s_res.evals = <<s_x>>
              /\ s_res.out = EulerFormula(s_f, s_x, s_dt)
              /\ Scenario => s_res.out = R(9, 10)
        /\ UsesRK4 =>
              /\ Len(s_res.evals) = 4
              /\ s_res.evals = RK4Points(s_f, s_x, s_dt)
              /\ s_res.out = RK4Formula(s_f, s_x, s_dt)
              /\ Scenario =>
                    /\ s_res.out = R(9048375, 10000000)
                    /\ RLess(RAbs(RSub(s_res.out, R(904837, 1000000))), R(1, 200000))
C7_Witness ==
    /\ s_pc = "done" /\ s_op = "forward" /\ s_model.method = "rk4" /\ Scenario
    /\ s_res.out = R(72387, 80000)

\* C10: forward knows the names 'euler' and 'rk4' only; with any other method,
\* which the constructor stores unchecked, it evaluates the network nowhere
\* and returns None, and the call ends normally.
C10_UnknownMethodReturnsNone ==
    /\ (s_pc = "built") => s_model.method \in Methods
    /\ (s_pc = "done" /\ s_op = "forward" /\ s_model.method \notin {"euler", "rk4"}) =>
          /\ s_res.out = NoneVal
          /\ s_res.evals = <<>>
C10_Witness ==
    /\ s_pc = "done" /\ s_op = "forward" /\ s_model.method = "midpoint"
    /\ s_res.out = NoneVal

\* --------------------------------- claims on get_hessian_eigenvectors
Min(a, b) == IF a < b THEN a ELSE b
Taken == Min(g_args.num_batches, Len(g_src))
SubsetBuilt ==
    \/ g_pc \in {"eigsh", "returned"}
    \/ g_pc = "raised" /\ g_err # "RuntimeError: cat"

\* C8: applied to a vector of length num_params the operator returns a vector
\* of that length; applied to a vector of any other length, length 1 included,
\* it fails explicitly and returns nothing: it never broadcasts.
C8_ShapeContract ==
    (g_v # -1) =>
        /\ (g_v = g_args.num_params) =>
              (g_res.err = "none" /\ g_res.len = g_args.num_params)
        /\ (g_v # g_args.num_params) =>
              (g_res.err # "none" /\ g_res.len = -1 /\ g_pc = "raised")

\* C9: the subset is built once, before the first Hessian-vector product, as
\* the concatenation in source order of the first min(num_batches, batches the
\* source yields) batches, without error when at least one batch is collected;
\* every Hessian-vector product uses that subset, the source is iterated once
\* only, and the subset never changes.
C9_FrozenSubset ==
    /\ g_iters <= 1
    /\ (g_pc # "idle") => g_iters = 1
    /\ (g_pc # "idle") => g_fetched <= Min(g_args.num_batches + 1, Len(g_src))
    /\ (g_pc = "cat") => subset_images = SubSeq(g_src, 1, Taken)
    /\ (g_err = "RuntimeError: cat") => Taken = 0
    /\ SubsetBuilt =>
          /\ Taken >= 1
          /\ subset_images = cat(SubSeq(g_src, 1, Taken))
          /\ g_hvp_used \subseteq {subset_images}
    /\ (g_hvp_calls > 0) => (SubsetBuilt /\ g_hvp_used = {subset_images})
C9_Witness ==
    /\ g_pc = "returned" /\ g_hvp_calls = 2
    /\ g_args.num_batches = 3 /\ Len(g_src) = 2
    /\ subset_images = <<1, 2, 3>>

====
